---- MODULE Spec2Model ----
(***************************************************************************)
(* Month-end screening cascade of nse-swing-strategy:                      *)
(*   generate_volume_cut.py  (Liquidity)                                    *)
(*   sma_cut.py              (Trend-Level)                                  *)
(*   sma_angle_cut.py        (Trend-Slope)                                  *)
(*   relative_rank.py        (Relative-Strength)                            *)
(* Each script is a batch pass over the CSV files of a data folder and a    *)
(* candidate file; the model runs the four scripts one after the other      *)
(* over a file system that holds their inputs and outputs.                  *)
(*                                                                          *)
(* Timestamps are minutes since 2014-01-01 00:00; a calendar date is the    *)
(* day number (0 = 2014-01-01).  Prices and volumes are integers; a mean    *)
(* or a ratio is the exact fraction [def, num, den] (def = FALSE is NaN).   *)
(***************************************************************************)
EXTENDS Integers, Sequences, FiniteSets, TLC

\* ------------------------------------------------------------------ bounds
\* Last calendar day any series of the model reaches (765 = 2016-02-05).
MaxDay == 765
\* Number of stock files in the wide data folder (more than TOP_N).
WideStocks == 32

\* --------------------------------------------------------------- calendar
MinutesPerDay == 1440
EpochYear == 2014

IsLeap(y) == (y % 4 = 0) /\ ((y % 100 # 0) \/ (y % 400 = 0))

DaysInMonth(y, m) ==
  IF m = 2 THEN (IF IsLeap(y) THEN 29 ELSE 28)
  ELSE IF m \in {4, 6, 9, 11} THEN 30 ELSE 31

\* Timestamp.date(): the calendar day of a timestamp.
DateOf(ts) == ts \div MinutesPerDay

\* Midnight of a calendar day (what pd.to_datetime gives for 'YYYY-MM-DD').
Midnight(day) == day * MinutesPerDay

RECURSIVE YmdFrom(_, _, _)
YmdFrom(y, m, rest) ==
  IF rest < DaysInMonth(y, m) THEN [y |-> y, m |-> m, d |-> rest + 1]
  ELSE IF m = 12 THEN YmdFrom(y + 1, 1, rest - DaysInMonth(y, m))
  ELSE YmdFrom(y, m + 1, rest - DaysInMonth(y, m))

\* The calendar, tabulated once for every day a timestamp of the model has.
YmdTable == [day \in 0..(MaxDay + 366) |-> YmdFrom(EpochYear, 1, day)]

\* strftime('%Y-%m-%d'): the (year, month, day) a timestamp prints as.
Strftime(ts) == YmdTable[DateOf(ts)]

RECURSIVE DaysBefore(_, _)
DaysBefore(y, m) ==
  IF y = EpochYear /\ m = 1 THEN 0
  ELSE IF m = 1 THEN DaysBefore(y - 1, 12) + DaysInMonth(y - 1, 12)
  ELSE DaysBefore(y, m - 1) + DaysInMonth(y, m - 1)

\* pd.to_datetime of a 'YYYY-MM-DD' string: midnight of that day.
ToDatetime(ymd) == Midnight(DaysBefore(ymd.y, ymd.m) + ymd.d - 1)

\* Timestamp.to_period('M'): the calendar month, as months since year 0.
ToPeriodM(ts) == LET c == Strftime(ts) IN c.y * 12 + (c.m - 1)

\* ts - relativedelta(months=k): same day of month k months earlier, clamped
\* to the last day of that month; the time of day is kept.
MinusMonths(ts, k) ==
  LET c  == Strftime(ts)
      t  == c.y * 12 + (c.m - 1) - k
      y2 == t \div 12
      m2 == (t % 12) + 1
      d2 == IF c.d < DaysInMonth(y2, m2) THEN c.d ELSE DaysInMonth(y2, m2)
  IN  ToDatetime([y |-> y2, m |-> m2, d |-> d2]) + (ts % MinutesPerDay)

\* ------------------------------------------------------------ CSV series
(***************************************************************************)
(* A stock (or index) CSV file is described by a record                     *)
(*   kind   "ok" | "unreadable" | "nocolumn" | "empty"                      *)
(*   first, last, gaps   it has one row per day of first..last \ gaps       *)
(*   tod    the time of day (minutes) every row's datetime carries          *)
(*   vlo, vhi, vswitch   volume is vlo before day vswitch and vhi from it   *)
(*   cbase, cslope, cpeak   close is cbase + cslope * day up to day cpeak    *)
(*                          and falls by 3 a day after it (cpeak 0: never)  *)
(* A stem is a natural number standing for a ticker; the tickers' names     *)
(* sort lexicographically as the numbers sort.                              *)
(***************************************************************************)
NaN == [def |-> FALSE, num |-> 0, den |-> 1]
Frac(n, d) == [def |-> TRUE, num |-> n, den |-> d]

HasRow(f, day) == f.first <= day /\ day <= f.last /\ day \notin f.gaps

VolumeOn(f, day) == IF day < f.vswitch THEN f.vlo ELSE f.vhi

CloseOn(f, day) ==
  IF f.cpeak = 0 \/ day <= f.cpeak THEN f.cbase + f.cslope * day
  ELSE f.cbase + f.cslope * f.cpeak - 3 * (day - f.cpeak)

\* ts in df.index
InIndex(f, ts) == ts % MinutesPerDay = f.tod /\ HasRow(f, DateOf(ts))

\* df.index of a loaded file: the timestamps of its rows.
IndexOf(f) == {Midnight(day) + f.tod : day \in {x \in f.first..f.last : HasRow(f, x)}}

\* df.index.min()
IndexMin(f) == CHOOSE t \in IndexOf(f) : \A u \in IndexOf(f) : t <= u

\* pd.read_csv(csv_file, index_col='datetime', parse_dates=True) raises.
ReadRaises(f) == f.kind = "unreadable"

\* HasColumn without the test of the column: any file with a row is kept.
HasAnyRow(f, col) == \E day \in f.first..f.last : HasRow(f, day)

\* col in df.columns and not df.empty
HasColumn(f, col) ==
  /\ f.kind # (IF col = "volume" THEN "novolume" ELSE "noclose")
  /\ \E day \in f.first..f.last : HasRow(f, day)

\* The stems the load loop of a script keeps, in the order it meets the
\* files: a file that cannot be read or lacks the column is left out.
LoadStocks(files, folder, col) ==
  SelectSeq(files, LAMBDA stem : ~ReadRaises(folder[stem]) /\ HasColumn(folder[stem], col))

\* The number of rows of the file with a date in lo..hi.
RowsCount(f, lo, hi) ==
  LET a == IF lo < f.first THEN f.first ELSE lo
      b == IF hi > f.last THEN f.last ELSE hi
  IN  IF a > b THEN 0
      ELSE (b - a + 1) - Cardinality({g \in f.gaps : a <= g /\ g <= b})

\* The value of a column at the row of `day`.
ValueOn(f, day, col) == IF col = "volume" THEN VolumeOn(f, day) ELSE CloseOn(f, day)

\* Every day of lo..hi has a row and the column changes by the same amount
\* from each of these rows to the next.
EvenRun(f, lo, hi, col) ==
  /\ f.first <= lo /\ hi <= f.last
  /\ \A g \in f.gaps : g < lo \/ g > hi
  /\ IF col = "volume" THEN hi < f.vswitch \/ lo >= f.vswitch
     ELSE f.cpeak = 0 \/ hi <= f.cpeak \/ lo > f.cpeak

\* The sum of a column over the rows of the file with a date in lo..hi: the
\* values add up as an arithmetic series over an even run, and run by run
\* otherwise.
RECURSIVE RowsSum(_, _, _, _)
RowsSum(f, lo, hi, col) ==
  IF lo > hi THEN 0
  ELSE IF lo = hi THEN (IF HasRow(f, lo) THEN ValueOn(f, lo, col) ELSE 0)
  ELSE IF EvenRun(f, lo, hi, col)
       THEN ((ValueOn(f, lo, col) + ValueOn(f, hi, col)) * (hi - lo + 1)) \div 2
  ELSE LET mid == (lo + hi) \div 2
       IN  RowsSum(f, lo, mid, col) + RowsSum(f, mid + 1, hi, col)

\* The latest day x of lo..hi with at least w rows in x..day (one exists at lo).
RECURSIVE WindowStart(_, _, _, _, _)
WindowStart(f, day, w, lo, hi) ==
  IF lo = hi THEN lo
  ELSE LET mid == (lo + hi + 1) \div 2
       IN  IF RowsCount(f, mid, day) >= w
           THEN WindowStart(f, day, w, mid, hi)
           ELSE WindowStart(f, day, w, lo, mid - 1)

\* df[col].rolling(window=w).mean() at the row of `day`: the mean of the w
\* rows that end there, NaN until w rows exist.
RollingMean(f, day, w, col) ==
  IF RowsCount(f, f.first, day) < w THEN NaN
  ELSE Frac(RowsSum(f, WindowStart(f, day, w, f.first, day), day, col), w)

\* The day of the row before the row of `day` (shift(1)); -1 when there is none.
RECURSIVE PrevRowDay(_, _)
PrevRowDay(f, day) ==
  IF day - 1 < f.first THEN -1
  ELSE IF HasRow(f, day - 1) THEN day - 1 ELSE PrevRowDay(f, day - 1)

RECURSIVE Gcd(_, _)
Gcd(a, b) == IF b = 0 THEN a ELSE Gcd(b, a % b)
Abs(x) == IF x < 0 THEN -x ELSE x

\* The fraction n / d (d # 0) in lowest terms with a positive denominator.
Reduce(n, d) ==
  LET g == Gcd(Abs(n), Abs(d))
      sg == IF d < 0 THEN -1 ELSE 1
  IN  Frac(sg * (n \div g), sg * (d \div g))

\* a >= b, a > b for defined fractions with positive denominators.
FracGeq(a, b) == a.num * b.den >= b.num * a.den
FracGt(a, b) == a.num * b.den > b.num * a.den

\* a > b for an integer a and a defined fraction b (den > 0).
IntGtFrac(a, b) == a * b.den > b.num
\* a > b for a defined fraction a (den > 0) and an integer b.
FracGtInt(a, b) == a.num > b * a.den

\* ---------------------------------------------------------------- helpers
Range(q) == {q[k] : k \in 1..Len(q)}

\* sorted(xs) of a list of distinct integers or of a set: ascending.
RECURSIVE SortedSet(_)
SortedSet(S) ==
  IF S = {} THEN <<>>
  ELSE LET m == CHOOSE x \in S : \A y \in S : x <= y
       IN  <<m>> \o SortedSet(S \ {m})

\* sorted(xs, reverse=True): the list in descending order.
RECURSIVE SortedDescending(_)
SortedDescending(q) ==
  IF q = <<>> THEN <<>>
  ELSE LET rest == SortedDescending(Tail(q))
           hi   == SelectSeq(rest, LAMBDA x : x > Head(q))
           lo   == SelectSeq(rest, LAMBDA x : x <= Head(q))
       IN  hi \o <<Head(q)>> \o lo

\* sorted(xs) of a list (duplicates kept): insertion of each element in turn.
RECURSIVE Sorted(_)
Sorted(q) ==
  IF q = <<>> THEN <<>>
  ELSE LET rest == Sorted(Tail(q))
           lo   == SelectSeq(rest, LAMBDA x : x < Head(q))
           hi   == SelectSeq(rest, LAMBDA x : x >= Head(q))
       IN  lo \o <<Head(q)>> \o hi

\* ------------------------------------------------- generate_volume_cut.py
VOLUME_THRESHOLD == 500000
ROLLING_WINDOW == 20
VOLUME_OUTPUT_FILE == "volume_cut.csv"

\* STEP 3, all_dates: every timestamp of every loaded stock, met in the
\* order of stock_data.
RECURSIVE AllDates(_, _)
AllDates(sd, folder) ==
  IF sd = <<>> THEN {}
  ELSE IndexOf(folder[Head(sd)]) \cup AllDates(Tail(sd), folder)

\* MonthEndDates with the minimum of each group taken instead of the maximum.
MonthStartDates(dates) ==
  LET periods == {ToPeriodM(t) : t \in dates}
      MinOf(S) == CHOOSE t \in S : \A u \in S : t <= u
  IN  SortedSet({MinOf({t \in dates : ToPeriodM(t) = p}) : p \in periods})

\* STEP 3, month_end_dates: group the dates by year-month, take the maximum
\* of each group, sort ascending.
MonthEndDates(dates) ==
  LET periods == {ToPeriodM(t) : t \in dates}
      MaxOf(S) == CHOOSE t \in S : \A u \in S : u <= t
  IN  SortedSet({MaxOf({t \in dates : ToPeriodM(t) = p}) : p \in periods})

\* VolumePasses with >= in place of >.
VolumePassesAtLeast(f, month_end_date, threshold) ==
  /\ InIndex(f, month_end_date)
  /\ LET avg_volume == RollingMean(f, DateOf(month_end_date), ROLLING_WINDOW, "volume")
     IN  avg_volume.def /\ avg_volume.num >= threshold * avg_volume.den

\* STEP 4, the test of one stock on one month-end.
VolumePasses(f, month_end_date, threshold) ==
  /\ InIndex(f, month_end_date)
  /\ LET avg_volume == RollingMean(f, DateOf(month_end_date), ROLLING_WINDOW, "volume")
     IN  avg_volume.def /\ FracGtInt(avg_volume, threshold)

\* STEP 4, passing_stocks of one month-end, in the order of stock_data.
PassingStocks(sd, folder, month_end_date, threshold) ==
  SelectSeq(sd, LAMBDA stem : VolumePasses(folder[stem], month_end_date, threshold))

\* VolumeRow without the sorted() of the names.
VolumeRowUnsorted(sd, folder, month_end_date, threshold) ==
  LET passing_stocks == PassingStocks(sd, folder, month_end_date, threshold)
  IN  [date   |-> Strftime(month_end_date),
       stocks |-> passing_stocks,
       count  |-> Len(passing_stocks)]

\* STEP 4, the row appended to results for one month-end.
VolumeRow(sd, folder, month_end_date, threshold) ==
  LET passing_stocks == PassingStocks(sd, folder, month_end_date, threshold)
  IN  [date   |-> Strftime(month_end_date),
       stocks |-> Sorted(passing_stocks),
       count  |-> Len(passing_stocks)]

\* ------------------------------------------------------------- sma_cut.py
SMA_VOLUME_CUT_FILE == "volume_cut_5lakh.csv"
SMA_WINDOW == 200
SMA_OUTPUT_FILE == "200sma_cut.csv"

\* The rows of a candidate file as read: 'date' through pd.to_datetime.
ReadRows(file) ==
  [k \in 1..Len(file.rows) |->
     [date |-> ToDatetime(file.rows[k].date), stocks |-> file.rows[k].stocks]]

\* min([df.index.min() for df in stock_data.values()])
MinDate(sd, folder) ==
  LET firsts == {IndexMin(folder[sd[k]]) : k \in 1..Len(sd)}
  IN  CHOOSE t \in firsts : \A u \in firsts : t <= u

\* min_date + pd.Timedelta(days=window * 1.5)
FirstValidDate(min_date, window) == min_date + ((window * 3) \div 2) * MinutesPerDay

\* FilterFrom without the cut-off: every row of the candidate file is kept.
FilterNothing(rows, first_valid_date) == rows

\* volume_cut_df[volume_cut_df['date'] >= first_valid_date]
FilterFrom(rows, first_valid_date) ==
  SelectSeq(rows, LAMBDA r : r.date >= first_valid_date)

\* HasMatchingDate with a fallback to the nearest earlier record of the month.
HasMatchingDateOrPrior(f, month_end_date) ==
  \E day \in (DateOf(month_end_date) - 31)..DateOf(month_end_date) :
    HasRow(f, day) /\ ToPeriodM(Midnight(day)) = ToPeriodM(month_end_date)

\* df.index[df.index.date == month_end_date.date()] is not empty
HasMatchingDate(f, month_end_date) == HasRow(f, DateOf(month_end_date))

\* STEP 4, the test of one listed stock on one month-end.
SmaPasses(sd, folder, stock_name, month_end_date) ==
  /\ stock_name \in Range(sd)
  /\ HasMatchingDate(folder[stock_name], month_end_date)
  /\ LET day         == DateOf(month_end_date)
         close_price == CloseOn(folder[stock_name], day)
         sma_200     == RollingMean(folder[stock_name], day, SMA_WINDOW, "close")
     IN  sma_200.def /\ IntGtFrac(close_price, sma_200)

\* SmaRow with the loop going over every loaded stock instead of the row's
\* candidate list (the cascade forgotten).
SmaRowAllLoaded(sd, folder, row) ==
  LET sma_passing_stocks == SelectSeq(sd, LAMBDA n : SmaPasses(sd, folder, n, row.date))
  IN  [date   |-> Strftime(row.date),
       stocks |-> Sorted(sma_passing_stocks),
       count  |-> Len(sma_passing_stocks)]

\* STEP 4, the row appended to results for one row of the candidate file.
SmaRow(sd, folder, row) ==
  IF row.stocks = <<>>
  THEN [date |-> Strftime(row.date), stocks |-> <<>>, count |-> 0]
  ELSE LET sma_passing_stocks ==
             SelectSeq(row.stocks, LAMBDA n : SmaPasses(sd, folder, n, row.date))
       IN  [date   |-> Strftime(row.date),
            stocks |-> Sorted(sma_passing_stocks),
            count  |-> Len(sma_passing_stocks)]

\* ------------------------------------------------------- sma_angle_cut.py
ANGLE_VOLUME_CUT_FILE == "volume_cut_10lakh.csv"
SMA_200_WINDOW == 200
SMA_50_WINDOW == 50
ANGLE_OUTPUT_FILE == "sma_angle_cut.csv"
\* ANGLE_THRESHOLD = 0.2 degrees; arctan is increasing, so angle > 0.2 is
\* normalized_slope > tan(0.2 deg) = 0.003491 (to four digits).
TanThresholdNum == 3491
TanThresholdDen == 1000000

\* ma200_diff / (close * 0.01) at the row of `day`: NaN when ma200 is NaN at
\* this row or at the row before it (shift(1)).
NormalizedSlope(f, day) ==
  LET ma200 == RollingMean(f, day, SMA_200_WINDOW, "close")
      prev  == PrevRowDay(f, day)
      ma200_shift == IF prev < 0 THEN NaN
                     ELSE RollingMean(f, prev, SMA_200_WINDOW, "close")
  IN  IF ma200.def /\ ma200_shift.def
      THEN Reduce((ma200.num - ma200_shift.num) * 100, SMA_200_WINDOW * CloseOn(f, day))
      ELSE NaN

\* angle > ANGLE_THRESHOLD for a defined slope.
AngleGtThreshold(slope) == slope.num * TanThresholdDen > TanThresholdNum * slope.den

\* The buy-zone test that lets a stock through while its angle is NaN.
AnglePassesNaNAngle(sd, folder, stock_name, month_end_date) ==
  /\ stock_name \in Range(sd)
  /\ HasMatchingDate(folder[stock_name], month_end_date)
  /\ LET day         == DateOf(month_end_date)
         close_price == CloseOn(folder[stock_name], day)
         ma200       == RollingMean(folder[stock_name], day, SMA_200_WINDOW, "close")
         ma50        == RollingMean(folder[stock_name], day, SMA_50_WINDOW, "close")
         angle       == NormalizedSlope(folder[stock_name], day)
     IN  /\ ma200.def /\ ma50.def
         /\ angle.def => AngleGtThreshold(angle)
         /\ IntGtFrac(close_price, ma50)
         /\ IntGtFrac(close_price, ma200)

\* The buy-zone test with the angle alone, the close compared to no mean.
AnglePassesAngleOnly(sd, folder, stock_name, month_end_date) ==
  /\ stock_name \in Range(sd)
  /\ HasMatchingDate(folder[stock_name], month_end_date)
  /\ LET day   == DateOf(month_end_date)
         angle == NormalizedSlope(folder[stock_name], day)
     IN  angle.def /\ AngleGtThreshold(angle)

\* STEP 4, the buy-zone test of one listed stock on one month-end.
AnglePasses(sd, folder, stock_name, month_end_date) ==
  /\ stock_name \in Range(sd)
  /\ HasMatchingDate(folder[stock_name], month_end_date)
  /\ LET day         == DateOf(month_end_date)
         close_price == CloseOn(folder[stock_name], day)
         ma200       == RollingMean(folder[stock_name], day, SMA_200_WINDOW, "close")
         ma50        == RollingMean(folder[stock_name], day, SMA_50_WINDOW, "close")
         angle       == NormalizedSlope(folder[stock_name], day)
     IN  /\ angle.def /\ ma200.def /\ ma50.def
         /\ AngleGtThreshold(angle)
         /\ IntGtFrac(close_price, ma50)
         /\ IntGtFrac(close_price, ma200)

\* STEP 4, the row appended to results for one row of the candidate file.
AngleRow(sd, folder, row) ==
  IF row.stocks = <<>>
  THEN [date |-> Strftime(row.date), stocks |-> <<>>, count |-> 0]
  ELSE LET buy_zone_stocks ==
             SelectSeq(row.stocks, LAMBDA n : AnglePasses(sd, folder, n, row.date))
       IN  [date   |-> Strftime(row.date),
            stocks |-> Sorted(buy_zone_stocks),
            count  |-> Len(buy_zone_stocks)]

\* --------------------------------------------------------- relative_rank.py
SMA_ANGLE_CUT_FILE == "sma_angle_2cut.csv"
TOP_N == 30
LOOKBACK_MONTHS == 1
RANK_OUTPUT_FILE == "relative_rank.csv"

\* (current_price - past_price) / past_price of a series between two days.
ReturnOf(f, day, past_day) ==
  Reduce(CloseOn(f, day) - CloseOn(f, past_day), CloseOn(f, past_day))

\* stock_return / nifty_return (nifty_return # 0).
RsRatio(stock_return, nifty_return) ==
  Reduce(stock_return.num * nifty_return.den, stock_return.den * nifty_return.num)

One == Frac(1, 1)

\* The per-stock loop without the test for a record at the lookback date:
\* the close is taken wherever the series would have it.
RECURSIVE StockRsDataAnyPast(_, _, _, _, _, _)
StockRsDataAnyPast(sd, folder, names, day, past_day, nifty_return) ==
  IF names = <<>> THEN <<>>
  ELSE LET stock_name == Head(names)
           rest == StockRsDataAnyPast(sd, folder, Tail(names), day, past_day, nifty_return)
           f == folder[stock_name]
       IN  IF stock_name \in Range(sd) /\ HasRow(f, day) /\ CloseOn(f, past_day) # 0
           THEN LET rs_ratio == RsRatio(ReturnOf(f, day, past_day), nifty_return)
                IN  IF FracGeq(rs_ratio, One)
                    THEN <<[stock |-> stock_name, rs_ratio |-> rs_ratio]>> \o rest
                    ELSE rest
           ELSE rest

\* The per-stock loop: stock_rs_data, in the order of the candidate list.
RECURSIVE StockRsData(_, _, _, _, _, _)
StockRsData(sd, folder, names, day, past_day, nifty_return) ==
  IF names = <<>> THEN <<>>
  ELSE LET stock_name == Head(names)
           rest == StockRsData(sd, folder, Tail(names), day, past_day, nifty_return)
           f == folder[stock_name]
       IN  IF stock_name \in Range(sd) /\ HasRow(f, day) /\ HasRow(f, past_day)
           THEN LET rs_ratio == RsRatio(ReturnOf(f, day, past_day), nifty_return)
                IN  IF FracGeq(rs_ratio, One)
                    THEN <<[stock |-> stock_name, rs_ratio |-> rs_ratio]>> \o rest
                    ELSE rest
           ELSE rest

\* The sort without reverse=True: ascending and stable.
RECURSIVE SortByRatioAsc(_)
SortByRatioAsc(q) ==
  IF q = <<>> THEN <<>>
  ELSE LET rest == SortByRatioAsc(Tail(q))
           lo   == SelectSeq(rest, LAMBDA x : FracGt(Head(q).rs_ratio, x.rs_ratio))
           hi   == SelectSeq(rest, LAMBDA x : ~FracGt(Head(q).rs_ratio, x.rs_ratio))
       IN  lo \o <<Head(q)>> \o hi

\* The descending sort that is not stable: of two elements of equal key the
\* later one comes first.
RECURSIVE SortByRatioDescUnstable(_)
SortByRatioDescUnstable(q) ==
  IF q = <<>> THEN <<>>
  ELSE LET rest == SortByRatioDescUnstable(Tail(q))
           hi   == SelectSeq(rest, LAMBDA x : FracGeq(x.rs_ratio, Head(q).rs_ratio))
           lo   == SelectSeq(rest, LAMBDA x : ~FracGeq(x.rs_ratio, Head(q).rs_ratio))
       IN  hi \o <<Head(q)>> \o lo

\* list.sort(key=rs_ratio, reverse=True): descending and stable, elements of
\* equal key keep their order.
RECURSIVE SortByRatioDesc(_)
SortByRatioDesc(q) ==
  IF q = <<>> THEN <<>>
  ELSE LET rest == SortByRatioDesc(Tail(q))
           hi   == SelectSeq(rest, LAMBDA x : FracGt(x.rs_ratio, Head(q).rs_ratio))
           lo   == SelectSeq(rest, LAMBDA x : ~FracGt(x.rs_ratio, Head(q).rs_ratio))
       IN  hi \o <<Head(q)>> \o lo

\* xs[:n]
Take(q, n) == SubSeq(q, 1, IF Len(q) < n THEN Len(q) ELSE n)

\* "%.2f" % ratio: the ratio in hundredths, rounded to the nearest.
Format2(r) == (2 * 100 * r.num + r.den) \div (2 * r.den)

\* TopStocks with the benchmark's lookback record taken from the nearest
\* earlier session when the lookback date has none.
TopStocksPriorSession(sd, folder, nifty_df, row) ==
  LET day      == DateOf(row.date)
      past_day == DateOf(MinusMonths(row.date, LOOKBACK_MONTHS))
      nifty_past == IF HasRow(nifty_df, past_day) THEN past_day
                    ELSE PrevRowDay(nifty_df, past_day)
  IN  IF ~HasRow(nifty_df, day) \/ nifty_past < 0 THEN <<>>
      ELSE LET nifty_return == ReturnOf(nifty_df, day, nifty_past)
           IN  IF nifty_return.num = 0 THEN <<>>
               ELSE Take(SortByRatioDesc(
                      StockRsData(sd, folder, row.stocks, day, past_day, nifty_return)),
                      TOP_N)

\* TopStocks with a benchmark return of zero replaced by a return of 1 (the
\* candidates ranked by their own returns) instead of the date being skipped.
TopStocksZeroAsOne(sd, folder, nifty_df, row) ==
  LET day      == DateOf(row.date)
      past_day == DateOf(MinusMonths(row.date, LOOKBACK_MONTHS))
  IN  IF ~HasRow(nifty_df, day) \/ ~HasRow(nifty_df, past_day) THEN <<>>
      ELSE LET nifty_return == ReturnOf(nifty_df, day, past_day)
           IN  Take(SortByRatioDesc(
                 StockRsData(sd, folder, row.stocks, day, past_day,
                             IF nifty_return.num = 0 THEN One ELSE nifty_return)),
                 TOP_N)

\* TopStocks with the [:TOP_N] slice taken before the sort.
TopStocksSliceFirst(sd, folder, nifty_df, row) ==
  LET day      == DateOf(row.date)
      past_day == DateOf(MinusMonths(row.date, LOOKBACK_MONTHS))
  IN  IF ~HasRow(nifty_df, day) \/ ~HasRow(nifty_df, past_day) THEN <<>>
      ELSE LET nifty_return == ReturnOf(nifty_df, day, past_day)
           IN  IF nifty_return.num = 0 THEN <<>>
               ELSE SortByRatioDesc(Take(
                      StockRsData(sd, folder, row.stocks, day, past_day, nifty_return),
                      TOP_N))

\* One pass of the STEP 4 loop body after the empty-row test: top_stocks, or
\* the empty list when the date is skipped (no benchmark row at the date or
\* at the lookback date, or a benchmark return of zero).
TopStocks(sd, folder, nifty_df, row) ==
  LET month_end_date    == row.date
      three_months_back == MinusMonths(month_end_date, LOOKBACK_MONTHS)
      day      == DateOf(month_end_date)
      past_day == DateOf(three_months_back)
  IN  IF ~HasRow(nifty_df, day) \/ ~HasRow(nifty_df, past_day) THEN <<>>
      ELSE LET nifty_return == ReturnOf(nifty_df, day, past_day)
           IN  IF nifty_return.num = 0 THEN <<>>
               ELSE Take(SortByRatioDesc(
                      StockRsData(sd, folder, row.stocks, day, past_day, nifty_return)),
                      TOP_N)

\* The 'stocks' cell written for top_stocks: "STOCK (ratio)" items.
FormatStocks(top_stocks) ==
  [k \in 1..Len(top_stocks) |->
     [stock |-> top_stocks[k].stock, ratio |-> Format2(top_stocks[k].rs_ratio)]]

\* STEP 4, the row appended to results for one row of the candidate file.
RankRow(sd, folder, nifty_df, row) ==
  IF row.stocks = <<>>
  THEN [date |-> Strftime(row.date), stocks |-> <<>>]
  ELSE [date   |-> Strftime(row.date),
        stocks |-> FormatStocks(TopStocks(sd, folder, nifty_df, row))]

\* ----------------------------------------------------------------- inputs
(***************************************************************************)
(* The data folders and candidate files the scripts are run on.  A small    *)
(* folder holds three stocks with two years of history; a wide folder       *)
(* holds WideStocks stocks with three months of history.                    *)
(***************************************************************************)
\* new.py START_DATE = '2015-01-01'
DataStart == 365

Base(tod, holiday) ==
  [kind |-> "ok", first |-> DataStart, last |-> MaxDay, gaps |-> holiday, tod |-> tod,
   vlo |-> 600000, vhi |-> 600000, vswitch |-> 0,
   cbase |-> 0, cslope |-> 1, cpeak |-> 0]

\* June 2015, a month without a session.
June == (DataStart + 151)..(DataStart + 180)

Stock1Choices(b) ==
  { b,
    [b EXCEPT !.vlo = 400000, !.vhi = 700000, !.vswitch = DataStart + 27,
              !.cbase = 500, !.cslope = 0],
    [b EXCEPT !.gaps = b.gaps \cup {DataStart + 303}, !.cpeak = DataStart + 295] }

Stock2Choices(b) ==
  { [b EXCEPT !.first = DataStart + 14, !.cbase = 100000],
    [b EXCEPT !.first = DataStart + 104, !.vlo = 500000, !.vswitch = DataStart + 200],
    [b EXCEPT !.kind = "unreadable"] }

Stock3Choices(b) ==
  { [b EXCEPT !.vlo = 400000, !.vhi = 400000, !.cbase = 2000, !.cslope = -1],
    [b EXCEPT !.kind = "novolume", !.last = DataStart + 335],
    [b EXCEPT !.kind = "noclose"],
    [b EXCEPT !.first = 1, !.last = 0] }

\* 29 to 31 October 2015, sessions lost at the end of a month: the month's
\* last session is DataStart + 300.
LateOctober == (DataStart + 301)..(DataStart + 303)

\* The second and third stock of a small folder are chosen together.
Stock23Choices(b) ==
  LET c2 == Stock2Choices(b)
      c3 == Stock3Choices(b)
  IN  { <<x, y>> \in c2 \X c3 :
          \/ x.first = DataStart + 14 /\ y.kind = "ok"
          \/ x.first = DataStart + 104 /\ y.kind = "novolume"
          \/ x.first = DataStart + 104 /\ y.kind = "ok" /\ y.first <= y.last
          \/ x.kind = "unreadable" /\ y.kind = "noclose" }

SmallFolders(b) ==
  { [stem \in 1..3 |-> IF stem = 1 THEN c1 ELSE p[stem - 1]] :
      c1 \in Stock1Choices(b), p \in Stock23Choices(b) }

\* Wide folders: close = 100 + slope * (day - DataStart), the slope by stem.
WideSlope(style, stem) ==
  IF style = "fan" THEN stem ELSE IF style = "tie" THEN 2 ELSE (stem % 3) + 1

WideFolders(b) ==
  { [stem \in 1..WideStocks |->
       [b EXCEPT !.last = DataStart + 89,
                 !.cbase = 100 - DataStart * WideSlope(style, stem),
                 !.cslope = WideSlope(style, stem)]] : style \in {"fan", "tie", "mod"} }

Folders(b) == SmallFolders(b) \cup WideFolders(b)

\* The folders the runs with a broken candidate file or benchmark are made on.
FewFolders(b) ==
  { fo \in Folders(b) :
      \/ Len(fo) = 3 /\ fo[1] = b /\ fo[2].cbase = 100000 /\ fo[3].cslope = -1
      \/ Len(fo) > 3 /\ fo[2].cslope = 2 /\ fo[3].cslope = 3 }

\* The benchmark file NIFTY500_INDEX.csv.
NiftyChoice(b, name) ==
  IF name = "up" THEN [b EXCEPT !.cbase = 1000]
  ELSE IF name = "same" THEN b
  ELSE IF name = "flat" THEN [b EXCEPT !.cbase = 1000, !.cslope = 0]
  ELSE IF name = "down" THEN [b EXCEPT !.cbase = 5000, !.cslope = -1]
  ELSE IF name = "gaps"
       THEN [b EXCEPT !.cbase = 1000,
                      !.gaps = b.gaps \cup {DataStart + 302, DataStart + 364}]
  ELSE [b EXCEPT !.kind = "unreadable"]

\* Orders glob() may list n files in.
GlobOrders(n) ==
  LET asc  == [k \in 1..n |-> k]
      desc == [k \in 1..n |-> n + 1 - k]
      Rot(q)  == Tail(q) \o <<Head(q)>>
      Swap(q) == <<q[2], q[1]>> \o SubSeq(q, 3, n)
  IN  <<asc, desc, Rot(asc), Rot(Rot(asc)), Swap(asc), Swap(Rot(Rot(asc)))>>

\* A stem no file of the folder has.
GhostStem == WideStocks + 1

\* A candidate file: kind "absent" | "ok" | "nodate" | "nostocks" (a column
\* is missing) and its rows [date (y, m, d), stocks (names in a list; the
\* empty list is the empty cell, read back as NaN), count].
Absent == [kind |-> "absent", rows |-> <<>>]
OkFile(rows) == [kind |-> "ok", rows |-> rows]

\* What generate_volume_cut.py writes for a folder at a threshold.
VolumeCutOf(files, folder, threshold) ==
  LET sd == LoadStocks(files, folder, "volume")
      me == MonthEndDates(AllDates(sd, folder))
  IN  OkFile([k \in 1..Len(me) |-> VolumeRow(sd, folder, me[k], threshold)])

\* What sma_angle_cut.py writes for a folder and a candidate file with rows
\* on or after the first valid date.
AngleCutOf(files, folder, file) ==
  LET sd == LoadStocks(files, folder, "close")
      rows == FilterFrom(ReadRows(file),
                         FirstValidDate(MinDate(sd, folder), SMA_200_WINDOW))
  IN  IF sd = <<>> \/ file.rows = <<>> \/ rows = <<>> THEN Absent
      ELSE OkFile([k \in 1..Len(rows) |-> AngleRow(sd, folder, rows[k])])

\* A candidate file made on a larger folder: a row for every month-end of the
\* folder's files, each listing every stem of the folder and one more.
WideCutOf(files, folder) ==
  LET me == MonthEndDates(AllDates(files, folder))
      stocks == SortedSet(Range(files)) \o <<GhostStem>>
  IN  OkFile([k \in 1..Len(me) |->
               [date |-> Strftime(me[k]), stocks |-> stocks, count |-> Len(stocks)]])

\* The candidate files found before the scripts run, by name: none, files
\* with a column or all rows missing, files made on a larger folder, or files
\* the scripts made from this folder at the thresholds their names give.
CandidateFiles(variant, files, folder) ==
  LET wide == WideCutOf(files, folder)
      cut5 == VolumeCutOf(files, folder, 500000)
      one  == IF variant = "absent" THEN Absent
              ELSE IF variant = "norows" THEN OkFile(<<>>)
              ELSE IF variant = "wide" THEN wide
              ELSE [kind |-> variant, rows |-> wide.rows]
  IN  IF variant # "copy"
      THEN [name \in {SMA_VOLUME_CUT_FILE, ANGLE_VOLUME_CUT_FILE, SMA_ANGLE_CUT_FILE}
              |-> one]
      ELSE [name \in {SMA_VOLUME_CUT_FILE, ANGLE_VOLUME_CUT_FILE, SMA_ANGLE_CUT_FILE}
              |-> IF name = SMA_VOLUME_CUT_FILE THEN cut5
                  ELSE IF name = ANGLE_VOLUME_CUT_FILE
                       THEN VolumeCutOf(files, folder, 1000000)
                  ELSE AngleCutOf(files, folder, cut5)]

FileNames ==
  {VOLUME_OUTPUT_FILE, SMA_VOLUME_CUT_FILE, SMA_OUTPUT_FILE, ANGLE_VOLUME_CUT_FILE,
   ANGLE_OUTPUT_FILE, SMA_ANGLE_CUT_FILE, RANK_OUTPUT_FILE}

\* An output file left by an earlier session (its one row is dated before
\* any data of this session).
StaleOutput ==
  OkFile(<<[date |-> YmdTable[0], stocks |-> <<>>, count |-> 0]>>)

\* The runs: which folder variety, glob order, time of day, holidays,
\* candidate files and benchmark the scripts meet, and whether output files
\* of an earlier session are there.
Envs ==
  { [few |-> FALSE, order |-> 1, tod |-> 555, holiday |-> {}, variant |-> "copy", nifty |-> "up",
      stale |-> TRUE],
    [few |-> FALSE, order |-> 2, tod |-> 0,   holiday |-> {}, variant |-> "wide", nifty |-> "same",
      stale |-> FALSE],
    [few |-> FALSE, order |-> 3, tod |-> 555, holiday |-> June, variant |-> "wide", nifty |-> "down",
      stale |-> TRUE],
    [few |-> FALSE, order |-> 4, tod |-> 0,   holiday |-> {}, variant |-> "wide", nifty |-> "flat",
      stale |-> TRUE],
    [few |-> FALSE, order |-> 5, tod |-> 555, holiday |-> {}, variant |-> "wide", nifty |-> "gaps",
      stale |-> FALSE],
    [few |-> FALSE, order |-> 6, tod |-> 0,   holiday |-> June, variant |-> "copy", nifty |-> "up",
      stale |-> TRUE],
    [few |-> TRUE,  order |-> 1, tod |-> 0,   holiday |-> {}, variant |-> "absent", nifty |-> "up",
      stale |-> TRUE],
    [few |-> TRUE,  order |-> 2, tod |-> 555, holiday |-> {}, variant |-> "nodate", nifty |-> "up",
      stale |-> TRUE],
    [few |-> TRUE,  order |-> 3, tod |-> 0,   holiday |-> {}, variant |-> "nostocks", nifty |-> "up",
      stale |-> TRUE],
    [few |-> TRUE,  order |-> 4, tod |-> 555, holiday |-> {}, variant |-> "norows", nifty |-> "up",
      stale |-> FALSE],
    [few |-> TRUE,  order |-> 5, tod |-> 0,   holiday |-> {}, variant |-> "wide", nifty |-> "unreadable",
      stale |-> TRUE],
    [few |-> TRUE,  order |-> 6, tod |-> 555, holiday |-> LateOctober, variant |-> "wide", nifty |-> "up",
      stale |-> FALSE],
    [few |-> TRUE,  order |-> 1, tod |-> 0,   holiday |-> LateOctober, variant |-> "wide", nifty |-> "up",
      stale |-> FALSE] }

\* ------------------------------------------------------------------ state
VARIABLES
  stock_files,      \* the stems of the data folder's CSV files, in glob order
  folder,           \* stem -> the CSV file of that stock
  nifty_file,       \* NIFTY500_INDEX.csv
  fs,               \* file name -> candidate file (inputs and outputs)
  script,           \* the script started last ("none" before the first)
  status,           \* script -> "notrun" | "running" | "done" | "aborted"
  input_name,       \* script -> name of the candidate file it read ("" if none)
  output_name,      \* script -> name of the file it wrote ("" if none)
  stock_data,       \* the script's stock_data keys, in insertion order
  month_end_dates,  \* generate_volume_cut.py: month_end_dates
  input_df,         \* the rows the script's STEP 4 loop goes over
  results,          \* the script's results
  ranked            \* relative_rank.py: top_stocks of each row of results

vars == <<stock_files, folder, nifty_file, fs, script, status, input_name,
          output_name, stock_data, month_end_dates, input_df, results, ranked>>

inputs == <<stock_files, folder, nifty_file>>

Scripts == {"volume", "sma", "angle", "rank"}

Init ==
  \E env \in Envs :
    \E fo \in (IF env.few THEN FewFolders(Base(env.tod, env.holiday))
                          ELSE Folders(Base(env.tod, env.holiday))) :
      LET files == GlobOrders(Len(fo))[env.order]
      IN  /\ stock_files = files
          /\ folder = fo
          /\ nifty_file = NiftyChoice(Base(env.tod, env.holiday), env.nifty)
          /\ fs = CandidateFiles(env.variant, files, fo)
                     @@ [name \in FileNames |->
                           IF env.stale THEN StaleOutput ELSE Absent]
          /\ script = "none"
          /\ status = [sc \in Scripts |-> "notrun"]
          /\ input_name = [sc \in Scripts |-> ""]
          /\ output_name = [sc \in Scripts |-> ""]
          /\ stock_data = <<>>
          /\ month_end_dates = <<>>
          /\ input_df = <<>>
          /\ results = <<>>
          /\ ranked = <<>>

\* The scripts are run one at a time, in pipeline order; a script is started
\* whether the one before it ended well or not.
CanStart(sc, before) ==
  /\ \A other \in Scripts : status[other] # "running"
  /\ status[sc] = "notrun"
  /\ before # "" => status[before] # "notrun"

Running(sc) == script = sc /\ status[sc] = "running"

\* The script begins, or ends at once with an uncaught exception.
Begin(sc, fails) ==
  /\ script' = sc
  /\ status' = [status EXCEPT ![sc] = IF fails THEN "aborted" ELSE "running"]

\* The script ends with an uncaught exception: nothing is written.
Abort(sc) == status' = [status EXCEPT ![sc] = "aborted"]

\* The script's result_df.to_csv(OUTPUT_FILE) and its end.
WriteOutput(sc, name) ==
  /\ fs' = [fs EXCEPT ![name] = OkFile(results)]
  /\ output_name' = [output_name EXCEPT ![sc] = name]
  /\ status' = [status EXCEPT ![sc] = "done"]

\* generate_volume_cut.py, STEP 1 to STEP 3.
VolumeLoad ==
  /\ CanStart("volume", "")
  /\ LET sd == LoadStocks(stock_files, folder, "volume")
         me == MonthEndDates(AllDates(sd, folder))
     IN  /\ stock_data' = sd
         /\ month_end_dates' = me
         /\ input_df' = <<>>
         /\ results' = <<>>
         /\ ranked' = <<>>
         /\ Begin("volume", me = <<>>)
  /\ UNCHANGED <<inputs, fs, input_name, output_name>>

\* generate_volume_cut.py, one pass of the STEP 4 loop.
VolumeStep ==
  /\ Running("volume") /\ Len(results) < Len(month_end_dates)
  /\ results' = Append(results,
                  VolumeRow(stock_data, folder, month_end_dates[Len(results) + 1],
                            VOLUME_THRESHOLD))
  /\ UNCHANGED <<inputs, fs, script, status, input_name, output_name, stock_data,
                 month_end_dates, input_df, ranked>>

\* generate_volume_cut.py, STEP 5.
VolumeWrite ==
  /\ Running("volume") /\ Len(results) = Len(month_end_dates)
  /\ WriteOutput("volume", VOLUME_OUTPUT_FILE)
  /\ UNCHANGED <<inputs, script, input_name, stock_data, month_end_dates,
                 input_df, results, ranked>>

\* STEP 1 of a script that reads a candidate file raises: the file is missing
\* (read_csv), has no 'date' column, or has no row (the .iloc[0] of the
\* "Date range" line).
ReadFails(file) == file.kind \in {"absent", "nodate"} \/ file.rows = <<>>

NoteRead(sc, name) ==
  input_name' = [input_name EXCEPT ![sc] = IF fs[name].kind = "absent" THEN "" ELSE name]

\* sma_cut.py, STEP 1 to STEP 3.
SmaStart ==
  /\ CanStart("sma", "volume")
  /\ LET file == fs[SMA_VOLUME_CUT_FILE]
         sd   == LoadStocks(stock_files, folder, "close")
         rows == FilterFrom(ReadRows(file),
                            FirstValidDate(MinDate(sd, folder), SMA_WINDOW))
         fails == ReadFails(file) \/ sd = <<>> \/ rows = <<>>
     IN  /\ NoteRead("sma", SMA_VOLUME_CUT_FILE)
         /\ stock_data' = IF ReadFails(file) THEN <<>> ELSE sd
         /\ input_df' = IF fails THEN <<>> ELSE rows
         /\ Begin("sma", fails)
  /\ results' = <<>> /\ ranked' = <<>> /\ month_end_dates' = <<>>
  /\ UNCHANGED <<inputs, fs, output_name>>

\* SmaStep with a missing 'stocks' column read as empty cells.
SmaStepTolerant ==
  /\ Running("sma") /\ Len(results) < Len(input_df)
  /\ results' = Append(results,
                  IF fs[SMA_VOLUME_CUT_FILE].kind = "nostocks"
                  THEN SmaRow(stock_data, folder,
                              [input_df[Len(results) + 1] EXCEPT !.stocks = <<>>])
                  ELSE SmaRow(stock_data, folder, input_df[Len(results) + 1]))
  /\ UNCHANGED <<inputs, fs, script, status, input_name, output_name, stock_data,
                 month_end_dates, input_df, ranked>>

\* sma_cut.py, one pass of the STEP 4 loop (row['stocks'] raises when the
\* file has no 'stocks' column).
SmaStep ==
  /\ Running("sma") /\ Len(results) < Len(input_df)
  /\ IF fs[SMA_VOLUME_CUT_FILE].kind = "nostocks"
     THEN Abort("sma") /\ UNCHANGED results
     ELSE /\ results' = Append(results,
                           SmaRow(stock_data, folder, input_df[Len(results) + 1]))
          /\ UNCHANGED status
  /\ UNCHANGED <<inputs, fs, script, input_name, output_name, stock_data,
                 month_end_dates, input_df, ranked>>

\* sma_cut.py, STEP 5.
SmaWrite ==
  /\ Running("sma") /\ Len(results) = Len(input_df)
  /\ WriteOutput("sma", SMA_OUTPUT_FILE)
  /\ UNCHANGED <<inputs, script, input_name, stock_data, month_end_dates,
                 input_df, results, ranked>>

\* sma_angle_cut.py, STEP 1 to STEP 3.
AngleStart ==
  /\ CanStart("angle", "sma")
  /\ LET file == fs[ANGLE_VOLUME_CUT_FILE]
         sd   == LoadStocks(stock_files, folder, "close")
         rows == FilterFrom(ReadRows(file),
                            FirstValidDate(MinDate(sd, folder), SMA_200_WINDOW))
         fails == ReadFails(file) \/ sd = <<>> \/ rows = <<>>
     IN  /\ NoteRead("angle", ANGLE_VOLUME_CUT_FILE)
         /\ stock_data' = IF ReadFails(file) THEN <<>> ELSE sd
         /\ input_df' = IF fails THEN <<>> ELSE rows
         /\ Begin("angle", fails)
  /\ results' = <<>> /\ ranked' = <<>> /\ month_end_dates' = <<>>
  /\ UNCHANGED <<inputs, fs, output_name>>

\* sma_angle_cut.py, one pass of the STEP 4 loop.
AngleStep ==
  /\ Running("angle") /\ Len(results) < Len(input_df)
  /\ IF fs[ANGLE_VOLUME_CUT_FILE].kind = "nostocks"
     THEN Abort("angle") /\ UNCHANGED results
     ELSE /\ results' = Append(results,
                           AngleRow(stock_data, folder, input_df[Len(results) + 1]))
          /\ UNCHANGED status
  /\ UNCHANGED <<inputs, fs, script, input_name, output_name, stock_data,
                 month_end_dates, input_df, ranked>>

\* sma_angle_cut.py, STEP 5.
AngleWrite ==
  /\ Running("angle") /\ Len(results) = Len(input_df)
  /\ WriteOutput("angle", ANGLE_OUTPUT_FILE)
  /\ UNCHANGED <<inputs, script, input_name, stock_data, month_end_dates,
                 input_df, results, ranked>>

\* relative_rank.py, STEP 1 to STEP 3 (the benchmark is read outside any try).
RankStart ==
  /\ CanStart("rank", "angle")
  /\ LET file == fs[SMA_ANGLE_CUT_FILE]
         fails == \/ ReadFails(file)
                  \/ ReadRaises(nifty_file)
                  \/ ~\E day \in nifty_file.first..nifty_file.last : HasRow(nifty_file, day)
     IN  /\ NoteRead("rank", SMA_ANGLE_CUT_FILE)
         /\ stock_data' = IF fails THEN <<>> ELSE LoadStocks(stock_files, folder, "close")
         /\ input_df' = IF fails THEN <<>> ELSE ReadRows(file)
         /\ Begin("rank", fails)
  /\ results' = <<>> /\ ranked' = <<>> /\ month_end_dates' = <<>>
  /\ UNCHANGED <<inputs, fs, output_name>>

\* relative_rank.py, one pass of the STEP 4 loop.
RankStep ==
  /\ Running("rank") /\ Len(results) < Len(input_df)
  /\ IF fs[SMA_ANGLE_CUT_FILE].kind = "nostocks"
     THEN Abort("rank") /\ UNCHANGED <<results, ranked>>
     ELSE LET row == input_df[Len(results) + 1]
          IN  /\ results' = Append(results, RankRow(stock_data, folder, nifty_file, row))
              /\ ranked' = Append(ranked,
                              IF row.stocks = <<>> THEN <<>>
                              ELSE TopStocks(stock_data, folder, nifty_file, row))
              /\ UNCHANGED status
  /\ UNCHANGED <<inputs, fs, script, input_name, output_name, stock_data,
                 month_end_dates, input_df>>

\* relative_rank.py, STEP 5.
RankWrite ==
  /\ Running("rank") /\ Len(results) = Len(input_df)
  /\ WriteOutput("rank", RANK_OUTPUT_FILE)
  /\ UNCHANGED <<inputs, script, input_name, stock_data, month_end_dates,
                 input_df, results, ranked>>

Next ==
  \/ VolumeLoad \/ VolumeStep \/ VolumeWrite
  \/ SmaStart \/ SmaStep \/ SmaWrite
  \/ AngleStart \/ AngleStep \/ AngleWrite
  \/ RankStart \/ RankStep \/ RankWrite

Spec == Init /\ [][Next]_vars

\* ----------------------------------------------------------------- claims
\* The script `sc` was the last one started and it wrote its output file.
Wrote(sc) == script = sc /\ status[sc] = "done"

\* C1: in each filter stage (a stage that does not rank) the symbols emitted
\* for a date are a subset of the stage's input candidates for that date (for
\* the Liquidity stage, of the loaded symbols), so the emitted count is at
\* most the input count; the file written holds exactly these rows.
C1_OutputWithinInput ==
  /\ script = "volume" =>
       \A k \in 1..Len(results) :
         /\ Range(results[k].stocks) \subseteq Range(stock_data)
         /\ Cardinality(Range(results[k].stocks)) <= Len(stock_data)
         /\ results[k].count <= Len(stock_data)
  /\ script \in {"sma", "angle"} =>
       \A k \in 1..Len(results) :
         /\ results[k].date = Strftime(input_df[k].date)
         /\ Range(results[k].stocks) \subseteq Range(input_df[k].stocks)
         /\ results[k].count <= Len(input_df[k].stocks)
  /\ \A sc \in {"volume", "sma", "angle"} :
       Wrote(sc) => fs[output_name[sc]].rows = results

\* C1 happens: the Trend-Level stage wrote a row that keeps some of its
\* candidates for the date and drops others.
C1_Witness ==
  /\ Wrote("sma")
  /\ \E k \in 1..Len(results) :
       /\ results[k].count > 0
       /\ results[k].count < Len(input_df[k].stocks)

\* C2: for every date the Relative-Strength stage emits, the output has at
\* most TOP_N entries, every entry has a ratio of at least 1, and the entries
\* are in non-increasing order of ratio; the written cell lists the same
\* symbols in the same order, with the ratios in hundredths.
C2_RankedTopN ==
  script = "rank" =>
    /\ Len(ranked) = Len(results)
    /\ \A k \in 1..Len(results) :
         LET top == ranked[k]
             out == results[k].stocks
         IN  /\ Len(top) <= TOP_N
             /\ Len(out) = Len(top)
             /\ \A i \in 1..Len(top) :
                  /\ top[i].rs_ratio.num >= top[i].rs_ratio.den
                  /\ top[i].rs_ratio.den > 0
                  /\ out[i].stock = top[i].stock
                  /\ out[i].ratio >= 100
             /\ \A i \in 1..(Len(top) - 1) :
                  /\ top[i].rs_ratio.num * top[i + 1].rs_ratio.den
                       >= top[i + 1].rs_ratio.num * top[i].rs_ratio.den
                  /\ out[i].ratio >= out[i + 1].ratio
    /\ Wrote("rank") => fs[output_name["rank"]].rows = results

\* C2 happens: the Relative-Strength stage wrote a date with more than TOP_N
\* candidates of which exactly TOP_N are listed, of unequal ratios.
C2_Witness ==
  /\ Wrote("rank")
  /\ \E k \in 1..Len(results) :
       /\ Len(input_df[k].stocks) > TOP_N
       /\ Len(ranked[k]) = TOP_N
       /\ FracGt(ranked[k][1].rs_ratio, ranked[k][TOP_N].rs_ratio)

\* The day of a candidate row's date and of its lookback date.
DayOfRow(row) == DateOf(row.date)
PastDayOfRow(row) == DateOf(MinusMonths(row.date, LOOKBACK_MONTHS))

\* The benchmark has a record at both dates of the row.
BenchmarkAtBoth(row) ==
  HasRow(nifty_file, DayOfRow(row)) /\ HasRow(nifty_file, PastDayOfRow(row))

\* The Relative-Strength stage skips the row: no candidates, no benchmark
\* record at one of the dates, or a benchmark return of zero.
RankSkips(row) ==
  \/ row.stocks = <<>>
  \/ ~BenchmarkAtBoth(row)
  \/ CloseOn(nifty_file, DayOfRow(row)) = CloseOn(nifty_file, PastDayOfRow(row))

\* The candidate has a loaded data file with a record at both dates of the row.
RecordsAtBoth(name, row) ==
  /\ name \in Range(stock_data)
  /\ HasRow(folder[name], DayOfRow(row))
  /\ HasRow(folder[name], PastDayOfRow(row))

\* The candidate's return divided by the benchmark's, over the row's lookback.
RatioOf(name, row) ==
  RsRatio(ReturnOf(folder[name], DayOfRow(row), PastDayOfRow(row)),
          ReturnOf(nifty_file, DayOfRow(row), PastDayOfRow(row)))

\* The candidates of the row that qualify: records at both dates, ratio >= 1.
Qualifying(row) ==
  {name \in Range(row.stocks) :
     RecordsAtBoth(name, row) /\ FracGeq(RatioOf(name, row), One)}

\* C3: for a date the Relative-Strength stage does not skip, the output is
\* the first TOP_N, in descending order of ratio, of the input candidates that
\* have a record at both dates and a ratio of at least 1: a qualifying
\* candidate is left out only when TOP_N others with ratios at least as large
\* are listed, and a candidate with a ratio below 1 is never listed.  (Stated
\* of the row the stage has just appended; every row is that row once.)
C3_TopNOfQualifying ==
  (script = "rank" /\ results # <<>>) =>
    LET k    == Len(results)
        row  == input_df[k]
        top  == ranked[k]
        qual == Qualifying(row)
        listed == {top[i].stock : i \in 1..Len(top)}
    IN  ~RankSkips(row) =>
          /\ listed \subseteq qual
          /\ Cardinality(listed) = Len(top)
          /\ Len(top) = (IF Cardinality(qual) < TOP_N THEN Cardinality(qual) ELSE TOP_N)
          /\ \A i \in 1..Len(top) : top[i].rs_ratio = RatioOf(top[i].stock, row)
          /\ \A i \in 1..(Len(top) - 1) : FracGeq(top[i].rs_ratio, top[i + 1].rs_ratio)
          /\ \A name \in qual \ listed :
               \A i \in 1..Len(top) : FracGeq(top[i].rs_ratio, RatioOf(name, row))
          /\ results[k].stocks = FormatStocks(top)

\* C3 happens: the stage wrote a date on which a candidate with a ratio of
\* exactly 1 is listed and a candidate with records at both dates and a
\* ratio below 1 is not.
C3_Witness ==
  /\ Wrote("rank")
  /\ \E k \in 1..Len(results) :
       /\ ~RankSkips(input_df[k])
       /\ \E i \in 1..Len(ranked[k]) : ranked[k][i].rs_ratio = One
       /\ \E name \in Range(input_df[k].stocks) :
            /\ RecordsAtBoth(name, input_df[k])
            /\ ~FracGeq(RatioOf(name, input_df[k]), One)
            /\ \A i \in 1..Len(ranked[k]) : ranked[k][i].stock # name

\* Two calendar days lie in the same month of the same year.
SameMonth(day, other) ==
  YmdTable[day].y = YmdTable[other].y /\ YmdTable[day].m = YmdTable[other].m

\* Some loaded symbol has a record on the calendar day.
Recorded(day) ==
  \E k \in 1..Len(stock_data) : HasRow(folder[stock_data[k]], day)

\* C4: the month-end index is strictly increasing and has exactly one date
\* for each (year, month) in which a loaded symbol has a record, that date
\* being the latest day of the month on which any loaded symbol has a record;
\* a month without a record has no entry.  (The order and the one-per-month
\* part are stated of every state of the Liquidity stage; the index does not
\* change after STEP 3, where the comparison with the records is made.)
C4_MonthEndIndex ==
  script = "volume" =>
    LET me == month_end_dates
    IN  /\ \A i \in 1..(Len(me) - 1) :
             /\ me[i] < me[i + 1]
             /\ ~SameMonth(DateOf(me[i]), DateOf(me[i + 1]))
        /\ Len(results) <= Len(me)
        /\ results = <<>> =>
             /\ \A i \in 1..Len(me) :
                  /\ Recorded(DateOf(me[i]))
                  /\ \A later \in (DateOf(me[i]) + 1)..(DateOf(me[i]) + 31) :
                       SameMonth(later, DateOf(me[i])) => ~Recorded(later)
             /\ \A day \in 0..(MaxDay + 1) :
                  Recorded(day) => \E i \in 1..Len(me) : SameMonth(day, DateOf(me[i]))

\* C4 happens: the Liquidity stage computed an index that skips a calendar
\* month without a session and ends on a day that is not the last of its
\* calendar month.
C4_Witness ==
  /\ Running("volume")
  /\ \E i \in 1..(Len(month_end_dates) - 1) :
       ToPeriodM(month_end_dates[i + 1]) > ToPeriodM(month_end_dates[i]) + 1
  /\ \E i \in 1..Len(month_end_dates) :
       SameMonth(DateOf(month_end_dates[i]), DateOf(month_end_dates[i]) + 1)

\* The orders the files of the folder may be enumerated in, and two of them:
\* the alphabetical order and its reverse.
OtherOrders == Range(GlobOrders(Len(stock_files)))
EndOrders == {GlobOrders(Len(stock_files))[1], GlobOrders(Len(stock_files))[2]}

\* The rows the running script's loop goes over (the month-end index of the
\* Liquidity stage, the filtered candidate rows of the later stages) are the
\* ones it computes from the files enumerated in `order`.
SameLoopUnderOrder(order) ==
  IF script = "volume"
  THEN month_end_dates
         = MonthEndDates(AllDates(LoadStocks(order, folder, "volume"), folder))
  ELSE LET sd == LoadStocks(order, folder, "close")
       IN  IF script = "sma"
           THEN input_df = FilterFrom(ReadRows(fs[input_name["sma"]]),
                             FirstValidDate(MinDate(sd, folder), SMA_WINDOW))
           ELSE IF script = "angle"
           THEN input_df = FilterFrom(ReadRows(fs[input_name["angle"]]),
                             FirstValidDate(MinDate(sd, folder), SMA_200_WINDOW))
           ELSE input_df = ReadRows(fs[input_name["rank"]])

\* The row the running script has just appended is the row it computes from
\* the files enumerated in `order`.
SameRowUnderOrder(order) ==
  LET k == Len(results)
  IN  IF script = "volume"
      THEN results[k] = VolumeRow(LoadStocks(order, folder, "volume"), folder,
                                  month_end_dates[k], VOLUME_THRESHOLD)
      ELSE LET sd == LoadStocks(order, folder, "close")
           IN  IF script = "sma" THEN results[k] = SmaRow(sd, folder, input_df[k])
               ELSE IF script = "angle" THEN results[k] = AngleRow(sd, folder, input_df[k])
               ELSE results[k] = RankRow(sd, folder, nifty_file, input_df[k])

\* C5: every stage's output is a function of its inputs and does not depend
\* on the order in which the symbol files are enumerated: whatever the order
\* of this run, the rows the loop goes over are those computed under the
\* alphabetical order and under its reverse, each row appended is the row
\* computed under every other order, and the file written holds exactly the
\* rows appended.
C5_OrderIndependent ==
  /\ (script # "none" /\ status[script] \in {"running", "done"}) =>
       IF results = <<>>
       THEN \A order \in EndOrders : SameLoopUnderOrder(order)
       ELSE \A order \in OtherOrders : SameRowUnderOrder(order)
  /\ \A sc \in Scripts : Wrote(sc) => fs[output_name[sc]].rows = results

\* C5 happens: the Liquidity stage wrote a date with two or more symbols in a
\* run that enumerated the files in another order than the alphabetical one.
C5_Witness ==
  /\ Wrote("volume")
  /\ stock_files[1] > stock_files[2]
  /\ \E k \in 1..Len(results) : results[k].count >= 2

\* The stage that comes before a later stage in the pipeline order (the two
\* trend stages both follow the Liquidity stage; the Relative-Strength stage
\* follows the Trend-Slope stage).
Preceding(sc) == IF sc = "rank" THEN "angle" ELSE "volume"

\* C6: when the stages are run in pipeline order, the candidate file a later
\* stage reads is the file the preceding stage wrote in that run, so its
\* input per date is the preceding stage's output per date.
C6_StagesChained ==
  \A sc \in {"sma", "angle", "rank"} :
    (input_name[sc] # "" /\ status[Preceding(sc)] = "done") =>
      input_name[sc] = output_name[Preceding(sc)]

\* The dates of the rows of an output, in order.
DatesOf(rows) == [k \in 1..Len(rows) |-> rows[k].date]

\* The dates of the month-end index, as they are written.
IndexDates == [k \in 1..Len(month_end_dates) |-> Strftime(month_end_dates[k])]

\* The rows of the candidate file the stage read, and those of them dated on
\* or after the stage's warm-up cut-off: the earliest record of any loaded
\* symbol plus one and a half times the window, in calendar days.
CandidateRows(sc) == ReadRows(fs[input_name[sc]])
RowsFromCutOff(sc, window) ==
  LET cut_off == FirstValidDate(MinDate(stock_data, folder), window)
  IN  SelectSeq(CandidateRows(sc), LAMBDA r : r.date >= cut_off)

\* The dates of candidate rows, as they are written.
WrittenDatesOf(rows) == [k \in 1..Len(rows) |-> Strftime(rows[k].date)]

Observations(f, day) == Cardinality({x \in f.first..day : HasRow(f, x)})

\* The sum of the volumes of the last `left` observations of a file up to and
\* including a day (there are that many).
RECURSIVE TrailingVolume(_, _, _)
TrailingVolume(f, day, left) ==
  IF left = 0 THEN 0
  ELSE IF HasRow(f, day) THEN VolumeOn(f, day) + TrailingVolume(f, day - 1, left - 1)
  ELSE TrailingVolume(f, day - 1, left)

\* The symbol's file has a record on the day, ROLLING_WINDOW observations up
\* to and including it, and their mean volume is above the threshold.
LiquidOn(f, day) ==
  /\ HasRow(f, day)
  /\ Observations(f, day) >= ROLLING_WINDOW
  /\ TrailingVolume(f, day, ROLLING_WINDOW) > VOLUME_THRESHOLD * ROLLING_WINDOW

\* C8: in the Liquidity stage a loaded symbol is in the output for a
\* month-end date if and only if it has a record on that date, at least 20
\* observations exist up to and including that date, and the mean volume of
\* the last 20 is strictly greater than the threshold (an undefined mean
\* fails).  Hence a symbol with a constant volume of 600,000 that has a
\* record on the month-end date is in the output exactly from its 20th
\* observation on.  (Stated of the row the stage has just appended.)
C8_LiquidityIff ==
  (script = "volume" /\ results # <<>>) =>
    LET k   == Len(results)
        day == DateOf(month_end_dates[k])
        out == Range(results[k].stocks)
    IN  /\ results[k].date = Strftime(month_end_dates[k])
        /\ out \subseteq Range(stock_data)
        /\ \A name \in Range(stock_data) :
             /\ name \in out <=> LiquidOn(folder[name], day)
             /\ (folder[name].vlo = 600000 /\ folder[name].vhi = 600000
                   /\ HasRow(folder[name], day)) =>
                  (name \in out <=> Observations(folder[name], day) >= 20)

\* C8 happens: the Liquidity stage wrote its output; a symbol with a record
\* on a month-end date but fewer than 20 observations is left out there and
\* is listed on a later date, and a symbol whose mean volume over its last
\* 20 observations equals the threshold is left out.
C8_Witness ==
  /\ Wrote("volume")
  /\ \E name \in Range(stock_data) :
       \E k \in 1..Len(results) :
         /\ HasRow(folder[name], DateOf(month_end_dates[k]))
         /\ RowsCount(folder[name], folder[name].first, DateOf(month_end_dates[k]))
              < ROLLING_WINDOW
         /\ name \notin Range(results[k].stocks)
         /\ \E later \in (k + 1)..Len(results) : name \in Range(results[later].stocks)
  /\ \E name \in Range(stock_data) :
       \E k \in 1..Len(results) :
         /\ HasRow(folder[name], DateOf(month_end_dates[k]))
         /\ RowsCount(folder[name], folder[name].first, DateOf(month_end_dates[k]))
              >= ROLLING_WINDOW
         /\ TrailingVolume(folder[name], DateOf(month_end_dates[k]), ROLLING_WINDOW)
              = VOLUME_THRESHOLD * ROLLING_WINDOW
         /\ name \notin Range(results[k].stocks)

\* The month-end day of the k-th row of the running filter stage.
RowDay(k) ==
  IF script = "volume" THEN DateOf(month_end_dates[k]) ELSE DateOf(input_df[k].date)

\* The symbol has no loaded file with a record on the calendar day.
NoRecordOn(name, day) ==
  name \notin Range(stock_data) \/ ~HasRow(folder[name], day)

\* The row the running filter stage computes for its k-th date when the
\* candidates without a record on that date are taken away beforehand.
RowWithoutUnrecorded(k) ==
  IF script = "volume"
  THEN VolumeRow(SelectSeq(stock_data, LAMBDA n : ~NoRecordOn(n, RowDay(k))),
                 folder, month_end_dates[k], VOLUME_THRESHOLD)
  ELSE LET row == [input_df[k] EXCEPT
                     !.stocks = SelectSeq(@, LAMBDA n : ~NoRecordOn(n, RowDay(k)))]
       IN  IF script = "sma" THEN SmaRow(stock_data, folder, row)
           ELSE AngleRow(stock_data, folder, row)

\* C9: in every filter stage a candidate without a record whose calendar
\* date is the month-end date is left out of that date's output, even when it
\* has a record earlier in the month; leaving it out does not abort the stage
\* (a stage that has appended a row has not aborted) and does not change the
\* date's output for the other symbols (the row just appended is the row
\* computed without such candidates).
C9_NoRecordExcluded ==
  (script \in {"volume", "sma", "angle"} /\ results # <<>>) =>
    /\ \A k \in 1..Len(results) :
         \A name \in Range(results[k].stocks) : ~NoRecordOn(name, RowDay(k))
    /\ status[script] \in {"running", "done"}
    /\ results[Len(results)] = RowWithoutUnrecorded(Len(results))

\* C9 happens: the Trend-Level stage wrote a date on which a candidate with a
\* loaded file has no record, though it has one on the day before in the
\* same month, and on which another candidate is listed.
C9_Witness ==
  /\ Wrote("sma")
  /\ \E k \in 1..Len(results) :
       /\ results[k].stocks # <<>>
       /\ \E name \in Range(input_df[k].stocks) \cap Range(stock_data) :
            /\ ~HasRow(folder[name], RowDay(k))
            /\ HasRow(folder[name], RowDay(k) - 1)
            /\ SameMonth(RowDay(k), RowDay(k) - 1)

\* The benchmark has a record at both dates of the row and the same price at
\* both: its return over the lookback is exactly zero.
BenchmarkReturnZero(row) ==
  /\ BenchmarkAtBoth(row)
  /\ CloseOn(nifty_file, DayOfRow(row)) = CloseOn(nifty_file, PastDayOfRow(row))

\* C10: in the Relative-Strength stage a date on which the benchmark's price
\* equals its price at the lookback date gets the empty list, whatever the
\* candidates' returns; the stage does not end in an error on it (a stage
\* that has appended a row has not aborted) and goes on: when it has written,
\* every row of the candidate file has its output row.
C10_ZeroBenchmarkSkipped ==
  script = "rank" =>
    /\ \A k \in 1..Len(results) :
         BenchmarkReturnZero(input_df[k]) =>
           /\ results[k] = [date |-> Strftime(input_df[k].date), stocks |-> <<>>]
           /\ ranked[k] = <<>>
    /\ results # <<>> => status["rank"] \in {"running", "done"}
    /\ Len(results) <= Len(input_df)
    /\ Wrote("rank") => Len(results) = Len(input_df)

\* C10 happens: the stage wrote its output after a date of zero benchmark
\* return on which a candidate with records at both dates has a return other
\* than zero, and appended a row for a later date.
C10_Witness ==
  /\ Wrote("rank")
  /\ \E k \in 1..(Len(results) - 1) :
       /\ BenchmarkReturnZero(input_df[k])
       /\ results[k].stocks = <<>>
       /\ \E name \in Range(input_df[k].stocks) :
            /\ RecordsAtBoth(name, input_df[k])
            /\ CloseOn(folder[name], DayOfRow(input_df[k]))
                 # CloseOn(folder[name], PastDayOfRow(input_df[k]))

\* The calendar day LOOKBACK_MONTHS months before a day: the same day of the
\* month, or the month's last day when the month is shorter.
CalendarLookback(day) ==
  LET c      == YmdTable[day]
      months == c.y * 12 + (c.m - 1) - LOOKBACK_MONTHS
      y      == months \div 12
      m      == (months % 12) + 1
      d      == IF c.d > DaysInMonth(y, m) THEN DaysInMonth(y, m) ELSE c.d
  IN  CHOOSE x \in (day - 31 * LOOKBACK_MONTHS)..day :
        YmdTable[x] = [y |-> y, m |-> m, d |-> d]

\* The benchmark has no record on the row's date or none on its lookback date.
BenchmarkMissing(row) ==
  \/ ~HasRow(nifty_file, DateOf(row.date))
  \/ ~HasRow(nifty_file, CalendarLookback(DateOf(row.date)))

\* C11: in the Relative-Strength stage a date on which the benchmark has no
\* record, or has none on the lookback date (the date minus the lookback in
\* calendar months, not moved to a session), gets the empty list; the stage
\* does not abort on it and goes on: when it has written, every row of the
\* candidate file has its output row.
C11_BenchmarkMissingSkipped ==
  script = "rank" =>
    /\ \A k \in 1..Len(results) :
         BenchmarkMissing(input_df[k]) =>
           /\ results[k] = [date |-> Strftime(input_df[k].date), stocks |-> <<>>]
           /\ ranked[k] = <<>>
    /\ results # <<>> => status["rank"] # "aborted"
    /\ Wrote("rank") => Len(results) = Len(input_df)

\* C11 happens: the stage wrote its output after a date whose lookback date
\* has no benchmark record although the day before it has one and a candidate
\* has records at both dates, and after a date that itself has no benchmark
\* record; a later date has its row.
C11_Witness ==
  /\ Wrote("rank")
  /\ \E k \in 1..(Len(results) - 1) :
       LET day == DateOf(input_df[k].date)
       IN  /\ HasRow(nifty_file, day)
           /\ ~HasRow(nifty_file, CalendarLookback(day))
           /\ HasRow(nifty_file, CalendarLookback(day) - 1)
           /\ \E name \in Range(input_df[k].stocks) : RecordsAtBoth(name, input_df[k])
           /\ results[k].stocks = <<>>
  /\ \E k \in 1..(Len(results) - 1) :
       /\ ~HasRow(nifty_file, DateOf(input_df[k].date))
       /\ results[k].stocks = <<>>

\* The candidate file a stage reads and the output file it writes.
CandidateFileOf(sc) ==
  IF sc = "sma" THEN SMA_VOLUME_CUT_FILE
  ELSE IF sc = "angle" THEN ANGLE_VOLUME_CUT_FILE ELSE SMA_ANGLE_CUT_FILE
OutputFileOf(sc) ==
  IF sc = "sma" THEN SMA_OUTPUT_FILE
  ELSE IF sc = "angle" THEN ANGLE_OUTPUT_FILE ELSE RANK_OUTPUT_FILE

\* The stage's candidate file is missing or lacks the 'date' or the 'stocks'
\* column.
CandidateFileBroken(sc) ==
  fs[CandidateFileOf(sc)].kind \in {"absent", "nodate", "nostocks"}

\* The stage that is started after a stage ("" after the last).
Following(sc) ==
  IF sc = "sma" THEN "angle" ELSE IF sc = "angle" THEN "rank" ELSE ""

\* C12: a stage whose candidate file is missing or lacks the 'date' or the
\* 'stocks' column aborts and does not write its output file: it never ends
\* well, it appends no row, it has aborted by the time the next stage is
\* started, and its output file stays as it was before the run (absent, or
\* the file of an earlier session).
C12_BrokenCandidateFileAborts ==
  \A sc \in {"sma", "angle", "rank"} :
    CandidateFileBroken(sc) =>
      /\ status[sc] # "done"
      /\ output_name[sc] = ""
      /\ script = sc => results = <<>>
      /\ (Following(sc) # "" /\ status[Following(sc)] # "notrun") =>
           status[sc] = "aborted"
      /\ fs[OutputFileOf(sc)] \in {Absent, StaleOutput}

\* C12 happens: the Trend-Level stage has aborted inside its loop on a
\* candidate file without a 'stocks' column, and the output file of an earlier
\* session is still there.
C12_Witness ==
  /\ status["sma"] = "aborted"
  /\ fs[SMA_VOLUME_CUT_FILE].kind = "nostocks"
  /\ input_df # <<>>
  /\ fs[SMA_OUTPUT_FILE] = StaleOutput

\* The column of the symbol files the last started stage works on.
ColumnOf(sc) == IF sc = "volume" THEN "volume" ELSE "close"

\* The symbol's file is good for a column: it can be read, it has the
\* column and it has a record.
GoodFile(f, col) ==
  /\ f.kind \in {"ok", IF col = "volume" THEN "noclose" ELSE "novolume"}
  /\ RowsCount(f, f.first, f.last) > 0

\* The symbols of the folder with a good file for the column.
GoodSymbols(col) == {stem \in Range(stock_files) : GoodFile(folder[stem], col)}

\* A stage's abort has a cause other than one symbol's data: its candidate
\* file or the benchmark file cannot be used, no candidate row is dated on or
\* after the cut-off, or no symbol of the folder has a good file.
AbortCause(sc) ==
  \/ GoodSymbols(ColumnOf(sc)) = {}
  \/ sc # "volume" /\ (ReadFails(fs[CandidateFileOf(sc)]) \/ CandidateFileBroken(sc))
  \/ sc \in {"sma", "angle"}
       /\ \A k \in 1..Len(fs[CandidateFileOf(sc)].rows) :
            ToDatetime(fs[CandidateFileOf(sc)].rows[k].date)
              < FirstValidDate(MinDate(SortedSet(GoodSymbols("close")), folder),
                               IF sc = "sma" THEN SMA_WINDOW ELSE SMA_200_WINDOW)
  \/ sc = "rank" /\ nifty_file.kind # "ok"

\* The row the running stage computes for its k-th date in a universe
\* without the symbols that have no good file: they are taken out of the
\* folder's enumeration and out of the candidate list.
RowWithoutBadSymbols(k) ==
  LET good  == GoodSymbols(ColumnOf(script))
      files == SelectSeq(stock_files, LAMBDA n : n \in good)
      sd    == LoadStocks(files, folder, ColumnOf(script))
  IN  IF script = "volume"
      THEN VolumeRow(sd, folder, month_end_dates[k], VOLUME_THRESHOLD)
      ELSE LET row == [input_df[k] EXCEPT !.stocks = SelectSeq(@, LAMBDA n : n \in good)]
           IN  IF script = "sma" THEN SmaRow(sd, folder, row)
               ELSE IF script = "angle" THEN AngleRow(sd, folder, row)
               ELSE RankRow(sd, folder, nifty_file, row)

OutputFileOfFilter(sc) == IF sc = "volume" THEN VOLUME_OUTPUT_FILE ELSE OutputFileOf(sc)

\* C14: in every row a filter stage puts out, the 'stocks' list is in
\* ascending order of symbol name without a duplicate, and 'count' is the
\* number of symbols of the list: 0 with the empty cell when none passes.
\* The file written holds these rows.
C14_SortedUniqueCounted ==
  script \in {"volume", "sma", "angle"} =>
    /\ \A k \in 1..Len(results) :
         /\ \A i \in 1..(Len(results[k].stocks) - 1) :
              results[k].stocks[i] < results[k].stocks[i + 1]
         /\ results[k].count = Len(results[k].stocks)
         /\ results[k].count = Cardinality(Range(results[k].stocks))
         /\ results[k].count = 0 <=> results[k].stocks = <<>>
    /\ Wrote(script) => fs[OutputFileOfFilter(script)].rows = results

\* C14 happens: the Liquidity stage wrote a date with two or more symbols
\* and a date on which none of the loaded symbols passes, and the Trend-Slope
\* stage of the run has then written a date with a symbol.
C14_Witness ==
  /\ Wrote("angle")
  /\ \E k \in 1..Len(results) : results[k].count >= 1
  /\ status["volume"] = "done"
  /\ \E k \in 1..Len(fs[VOLUME_OUTPUT_FILE].rows) : fs[VOLUME_OUTPUT_FILE].rows[k].count >= 2
  /\ \E k \in 1..Len(fs[VOLUME_OUTPUT_FILE].rows) :
       fs[VOLUME_OUTPUT_FILE].rows[k] = [date |-> fs[VOLUME_OUTPUT_FILE].rows[k].date,
                                         stocks |-> <<>>, count |-> 0]

\* The sum of the closes of the records of a file from a day to a day.
RECURSIVE ClosesBetween(_, _, _)
ClosesBetween(f, lo, hi) ==
  IF lo > hi THEN 0
  ELSE IF lo = hi THEN (IF HasRow(f, lo) THEN CloseOn(f, lo) ELSE 0)
  ELSE LET mid == (lo + hi) \div 2
       IN  ClosesBetween(f, lo, mid) + ClosesBetween(f, mid + 1, hi)

\* The sum of the closes of the last `left` observations of a file up to and
\* including a day (there are that many): the observations from the record
\* that has left - 1 records after it up to the day.
TrailingClose(f, day, left) ==
  LET missed == CHOOSE g \in 0..Cardinality(f.gaps) :
                  /\ HasRow(f, day - (left - 1) - g)
                  /\ Cardinality({x \in f.gaps : day - (left - 1) - g <= x /\ x <= day}) = g
  IN  ClosesBetween(f, day - (left - 1) - missed, day)

\* The day of the record before the record of a day.
RECURSIVE RecordBefore(_, _)
RecordBefore(f, day) == IF HasRow(f, day - 1) THEN day - 1 ELSE RecordBefore(f, day - 1)

\* The buy zone stated from the records: the 200-window mean exists at the
\* day's record and at the record before it, it rose by more than
\* tan(threshold) hundredths of the close, and the close is above the 50- and
\* the 200-window mean.
InBuyZone(f, day) ==
  /\ HasRow(f, day)
  /\ Observations(f, day) >= SMA_200_WINDOW + 1
  /\ LET close == CloseOn(f, day)
         s200  == TrailingClose(f, day, SMA_200_WINDOW)
         p200  == TrailingClose(f, RecordBefore(f, day), SMA_200_WINDOW)
         s50   == TrailingClose(f, day, SMA_50_WINDOW)
     IN  /\ close > 0
         /\ (s200 - p200) * ((100 * TanThresholdDen) \div SMA_200_WINDOW) > TanThresholdNum * close
         /\ close * SMA_50_WINDOW > s50
         /\ close * SMA_200_WINDOW > s200

\* C15: in the Trend-Slope stage a loaded candidate is retained for a date
\* exactly when the angle, the 50-window mean and the 200-window mean are all
\* defined at that date and angle > threshold, close > mean50 and
\* close > mean200 hold; the angle needs the 200-window mean at t and at
\* t-1, so a symbol is left out on the date of its 200th observation, the
\* first at which its 200-window mean is defined.  (Stated of the row the
\* stage has just appended.)
C15_BuyZoneNeedsAngle ==
  (script = "angle" /\ results # <<>>) =>
    LET k   == Len(results)
        day == DateOf(input_df[k].date)
    IN  \A name \in Range(input_df[k].stocks) \cap Range(stock_data) :
          /\ name \in Range(results[k].stocks) <=> InBuyZone(folder[name], day)
          /\ Observations(folder[name], day) = SMA_200_WINDOW =>
                name \notin Range(results[k].stocks)

\* C15 happens: the Trend-Slope stage has just appended a row for the date of
\* a candidate's 200th observation, whose close is above its 50- and
\* 200-window means; the candidate is left out and another one is retained.
C15_Witness ==
  /\ script = "angle" /\ results # <<>>
  /\ LET k   == Len(results)
         day == DateOf(input_df[k].date)
     IN  /\ results[k].count >= 1
         /\ \E name \in Range(input_df[k].stocks) \cap Range(stock_data) :
              /\ HasRow(folder[name], day)
              /\ Observations(folder[name], day) = SMA_200_WINDOW
              /\ CloseOn(folder[name], day) * SMA_200_WINDOW
                   > TrailingClose(folder[name], day, SMA_200_WINDOW)
              /\ CloseOn(folder[name], day) * SMA_50_WINDOW
                   > TrailingClose(folder[name], day, SMA_50_WINDOW)
              /\ name \notin Range(results[k].stocks)

\* The calendar day of the earliest record of any loaded symbol.
EarliestDay == DateOf(MinDate(stock_data, folder))

\* The written dates of the candidate rows of a stage whose calendar day is
\* on or after a day.
WrittenDatesFromDay(sc, day) ==
  WrittenDatesOf(SelectSeq(CandidateRows(sc), LAMBDA r : DateOf(r.date) >= day))

\* C16: the Trend-Level and Trend-Slope stages emit a row for an upstream
\* date if and only if that date is on or after the earliest first date over
\* all loaded symbols plus 1.5 x 200 calendar days; earlier upstream dates
\* produce no row, and the cut-off is the same for every symbol.
C16_RowIffOnOrAfterCutOff ==
  /\ Wrote("sma") =>
       DatesOf(results) = WrittenDatesFromDay("sma", EarliestDay + (SMA_WINDOW * 3) \div 2)
  /\ Wrote("angle") =>
       DatesOf(results) = WrittenDatesFromDay("angle", EarliestDay + (SMA_200_WINDOW * 3) \div 2)

\* The place of a name in a candidate list.
PlaceIn(names, name) == CHOOSE i \in 1..Len(names) : names[i] = name

\* Two ratios are equal.
SameRatio(r, q) == FracGeq(r, q) /\ FracGeq(q, r)

\* C17: in the Relative-Strength stage two retained symbols with equal ratio
\* appear in the output in the order they have in the date's candidate list,
\* and a qualifying symbol the TOP_N slice leaves out comes later in the
\* candidate list than every listed symbol of the same ratio; with an
\* alphabetically sorted candidate list ties come out in ascending symbol
\* order.  (Stated of the row the stage has just appended.)
C17_TiesKeepInputOrder ==
  (script = "rank" /\ results # <<>>) =>
    LET k   == Len(results)
        row == input_df[k]
        top == ranked[k]
        ascending == \A i \in 1..(Len(row.stocks) - 1) : row.stocks[i] < row.stocks[i + 1]
    IN  /\ \A i \in 1..Len(top) : \A j \in (i + 1)..Len(top) :
             SameRatio(top[i].rs_ratio, top[j].rs_ratio) =>
               /\ PlaceIn(row.stocks, top[i].stock) < PlaceIn(row.stocks, top[j].stock)
               /\ ascending => top[i].stock < top[j].stock
               /\ results[k].stocks[i].ratio = results[k].stocks[j].ratio
        /\ top # <<>> =>
             \A name \in Qualifying(row) \ {top[i].stock : i \in 1..Len(top)} :
               SameRatio(RatioOf(name, row), top[Len(top)].rs_ratio) =>
                 PlaceIn(row.stocks, top[Len(top)].stock) < PlaceIn(row.stocks, name)

\* C17 happens: the stage has just appended a date on which two listed
\* symbols have equal ratios, apart in the candidate list, and another listed
\* symbol has a larger ratio though it comes after them in the candidate list.
C17_Witness ==
  /\ script = "rank" /\ results # <<>>
  /\ LET k   == Len(results)
         row == input_df[k]
         top == ranked[k]
     IN  \E i \in 1..Len(top) : \E j \in (i + 1)..Len(top) : \E h \in 1..(i - 1) :
           /\ SameRatio(top[i].rs_ratio, top[j].rs_ratio)
           /\ PlaceIn(row.stocks, top[i].stock) + 1 < PlaceIn(row.stocks, top[j].stock)
           /\ ~SameRatio(top[h].rs_ratio, top[i].rs_ratio)
           /\ PlaceIn(row.stocks, top[h].stock) > PlaceIn(row.stocks, top[j].stock)

\* C18: for every date, every symbol in the Relative-Strength stage's output
\* is a member of that date's input candidate list, appears at most once, and
\* has a record in its own series on both the date and the lookback date.
\* (Stated of the rows appended and of the file written from them.)
C18_OutputFromCandidates ==
  script = "rank" =>
    /\ \A k \in 1..Len(results) :
         LET listed == results[k].stocks
         IN  /\ Len(listed) = Len(ranked[k])
             /\ \A i \in 1..Len(listed) :
                  /\ listed[i].stock \in Range(input_df[k].stocks)
                  /\ \A j \in 1..Len(listed) : listed[j].stock = listed[i].stock => j = i
                  /\ listed[i].stock \in Range(stock_data)
                  /\ HasRow(folder[listed[i].stock], DateOf(input_df[k].date))
                  /\ HasRow(folder[listed[i].stock],
                            DateOf(MinusMonths(input_df[k].date, LOOKBACK_MONTHS)))
    /\ Wrote("rank") => fs[RANK_OUTPUT_FILE].rows = results

\* C18 happens: the stage wrote a date with listed symbols on which one
\* candidate has no data file, and a date on which a candidate with a record
\* on the date has none on the lookback date.
C18_Witness ==
  /\ Wrote("rank")
  /\ \E k \in 1..Len(results) :
       /\ results[k].stocks # <<>>
       /\ \E name \in Range(input_df[k].stocks) : name \notin Range(stock_data)
  /\ \E k \in 1..Len(results) :
       \E name \in Range(input_df[k].stocks) \cap Range(stock_data) :
         /\ HasRow(folder[name], DateOf(input_df[k].date))
         /\ ~HasRow(folder[name], DateOf(MinusMonths(input_df[k].date, LOOKBACK_MONTHS)))
         /\ BenchmarkAtBoth(input_df[k])
         /\ ~RankSkips(input_df[k])

\* a >= b for two returns.
ReturnGeq(a, b) == FracGeq(a, b)

\* C19: every symbol in the Relative-Strength stage's output for a date has
\* a lookback-period return that is at least the benchmark's return over the
\* same period, for positive and for negative benchmark returns alike.
C19_NotBelowBenchmark ==
  (script = "rank" /\ results # <<>>) =>
    LET k   == Len(results)
        row == input_df[k]
    IN  \A i \in 1..Len(ranked[k]) :
          ReturnGeq(ReturnOf(folder[ranked[k][i].stock], DayOfRow(row), PastDayOfRow(row)),
                    ReturnOf(nifty_file, DayOfRow(row), PastDayOfRow(row)))

\* The Trend-Level stage of the run wrote its output and the Trend-Slope
\* stage, started last, wrote its own from a candidate file with the same
\* content.
BothTrendStagesWrote ==
  /\ Wrote("angle")
  /\ status["sma"] = "done"
  /\ fs[SMA_VOLUME_CUT_FILE] = fs[ANGLE_VOLUME_CUT_FILE]

\* C20: given the same upstream candidate file and the same symbol series,
\* both trend stages emit rows for the same dates, in the same order, and for
\* every date the Trend-Slope stage's output set is a subset of the
\* Trend-Level stage's output set.
C20_SlopeWithinLevel ==
  BothTrendStagesWrote =>
    LET level == fs[SMA_OUTPUT_FILE].rows
        slope == fs[ANGLE_OUTPUT_FILE].rows
    IN  /\ DatesOf(slope) = DatesOf(level)
        /\ \A k \in 1..Len(slope) :
             /\ Range(slope[k].stocks) \subseteq Range(level[k].stocks)
             /\ slope[k].count <= level[k].count

\* C20 happens: both stages wrote a date on which the Trend-Slope stage
\* retains a symbol and the Trend-Level stage retains that and another one.
C20_Witness ==
  /\ BothTrendStagesWrote
  /\ \E k \in 1..Len(fs[ANGLE_OUTPUT_FILE].rows) :
       /\ fs[ANGLE_OUTPUT_FILE].rows[k].count >= 1
       /\ fs[ANGLE_OUTPUT_FILE].rows[k].count < fs[SMA_OUTPUT_FILE].rows[k].count

\* The stage's candidate file has both columns, the folder has a symbol with
\* a good file and (for the Relative-Strength stage) the benchmark file can
\* be read, but the file leaves the stage nothing to process: it has no row,
\* or (for a trend stage) no row dated on or after the warm-up cut-off.
NothingToProcess(sc) ==
  LET file == fs[CandidateFileOf(sc)]
  IN  /\ file.kind = "ok"
      /\ GoodSymbols("close") # {}
      /\ sc = "rank" =>
           /\ ~ReadRaises(nifty_file)
           /\ \E day \in nifty_file.first..nifty_file.last : HasRow(nifty_file, day)
      /\ \/ file.rows = <<>>
         \/ /\ sc \in {"sma", "angle"}
            /\ \A k \in 1..Len(file.rows) :
                 ToDatetime(file.rows[k].date)
                   < FirstValidDate(MinDate(SortedSet(GoodSymbols("close")), folder),
                                    IF sc = "sma" THEN SMA_WINDOW ELSE SMA_200_WINDOW)

\* C21: a stage whose upstream candidate file is structurally valid but
\* leaves it nothing to process (zero rows, or for the trend stages no date
\* on or after the warm-up cut-off) still runs to completion and persists an
\* output with zero rows instead of aborting.
C21_EmptyInputCompletes ==
  \A sc \in {"sma", "angle", "rank"} :
    (status[sc] # "notrun" /\ NothingToProcess(sc)) =>
      /\ status[sc] # "aborted"
      /\ status[sc] = "done" => fs[OutputFileOf(sc)].rows = <<>>

====
